---------------------------- MODULE Spec2Model ----------------------------
(***************************************************************************)
(* A model of SynapseFlow's neuron models (synapseflow/neuron_models):     *)
(* NeuronParameters, BaseNeuronModel, LIFModel, AELIFModel and the         *)
(* spike-train utilities expand_bins, STA and find_fano_factor.            *)
(*                                                                         *)
(* Numbers.  The program computes in IEEE doubles.  The model computes in  *)
(* exact rationals extended with +inf, -inf and NaN, written as records    *)
(* [n |-> numerator, d |-> denominator] in lowest terms with d >= 0:       *)
(*   d > 0          the rational n/d                                       *)
(*   d = 0, n = 1   +inf        d = 0, n = -1   -inf                       *)
(*   d = 0, n = 0   NaN                                                    *)
(* Arrays keep the source's 0-based indices: an array of length N is a     *)
(* function on 0..N-1.  Python lists (isi_array) are sequences.            *)
(***************************************************************************)
EXTENDS Integers, Sequences, FiniteSets, TLC

VARIABLES
    neuron_parameters,  \* NeuronParameters record, derived fields included
    times,              \* BaseNeuronModel.times
    I,                  \* BaseNeuronModel.I
    V,                  \* BaseNeuronModel.V
    dt,                 \* BaseNeuronModel.dt
    num_fire,           \* BaseNeuronModel.num_fire
    noise_sigma,        \* LIFModel.noise_sigma
    noises,             \* LIFModel.noises
    last_fire_time,     \* attribute LIFModel.simulate creates on a spike
    I_SRA_array,        \* AELIFModel.I_SRA_array
    last_spike_time,    \* AELIFModel.last_spike_time
    isi_array,          \* AELIFModel.isi_array
    spike_array,        \* AELIFModel.spike_array
    pc,                 \* "idle": outside simulate(); "loop": inside its for loop
    i,                  \* the loop variable of simulate()
    calls,              \* simulate() calls that have returned
    fn,                 \* utilities: the function the caller applies
    args,               \* utilities: its arguments
    ret                 \* utilities: what the call produced

modelVars == <<neuron_parameters, times, I, V, dt, num_fire, noise_sigma, noises,
               last_fire_time, I_SRA_array, last_spike_time, isi_array,
               spike_array, pc, i, calls>>
utilVars == <<fn, args, ret>>
vars == <<modelVars, utilVars>>

-----------------------------------------------------------------------------
(* Bounds of the model.                                                    *)

\* length of the time grid of a LIFModel
NLif == 6
\* length of the time grid of an AELIFModel
NAelif == 4
\* simulate() calls on one model
MaxCalls == 2
\* longest array handed to a utility
MaxLen == 4

-----------------------------------------------------------------------------
(* Extended rational arithmetic (Python float / numpy.float64 operators).  *)

Abs(x) == IF x < 0 THEN -x ELSE x
Sgn(x) == IF x < 0 THEN -1 ELSE IF x = 0 THEN 0 ELSE 1

RECURSIVE GCD(_, _)
GCD(a, b) == IF b = 0 THEN a ELSE GCD(b, a % b)

\* n/d in lowest terms; d = 0 gives +inf, -inf or NaN by the sign of n
Norm(n, d) ==
    IF d = 0 THEN [n |-> Sgn(n), d |-> 0]
    ELSE LET s == IF d < 0 THEN -1 ELSE 1
             g == GCD(Abs(n), Abs(d))
         IN  [n |-> (s * n) \div g, d |-> (s * d) \div g]

Q(n, d) == Norm(n, d)
Z(n) == [n |-> n, d |-> 1]
PosInf == [n |-> 1, d |-> 0]
NegInf == [n |-> -1, d |-> 0]
NaN == [n |-> 0, d |-> 0]
IsFinite(x) == x.d > 0
IsNaN(x) == x.d = 0 /\ x.n = 0

\* x + y
RAdd(x, y) ==
    IF IsNaN(x) \/ IsNaN(y) THEN NaN
    ELSE IF x.d = 0 /\ y.d = 0 THEN (IF x.n = y.n THEN x ELSE NaN)
    ELSE IF x.d = 0 THEN x
    ELSE IF y.d = 0 THEN y
    ELSE LET g == GCD(x.d, y.d)
         IN  Norm(x.n * (y.d \div g) + y.n * (x.d \div g), (x.d \div g) * y.d)

\* -x
RNeg(x) == [n |-> -x.n, d |-> x.d]

\* x - y
RSub(x, y) == RAdd(x, RNeg(y))

\* x * y
RMul(x, y) ==
    LET g1 == GCD(Abs(x.n), y.d)
        g2 == GCD(Abs(y.n), x.d)
        a == IF g1 = 0 THEN x.n ELSE x.n \div g1
        b == IF g1 = 0 THEN y.d ELSE y.d \div g1
        c == IF g2 = 0 THEN y.n ELSE y.n \div g2
        e == IF g2 = 0 THEN x.d ELSE x.d \div g2
    IN  Norm(a * c, b * e)

\* x / y for y # 0 (the model never divides by zero)
RDiv(x, y) == RMul(x, Norm(y.d * Sgn(y.n), Abs(y.n)))

\* x < y; every comparison with NaN is false
RLt(x, y) ==
    IF IsNaN(x) \/ IsNaN(y) THEN FALSE
    ELSE IF x.d = 0 /\ y.d = 0 THEN x.n < y.n
    ELSE IF x.d = 0 THEN x.n < 0
    ELSE IF y.d = 0 THEN y.n > 0
    ELSE x.n * y.d < y.n * x.d

\* x > y
RGt(x, y) == RLt(y, x)

\* x >= y
RGe(x, y) == ~IsNaN(x) /\ ~IsNaN(y) /\ ~RLt(x, y)

\* x <= y
RLe(x, y) == RGe(y, x)


-----------------------------------------------------------------------------
(* NeuronParameters (neuron_parameters.py).                                *)

\* the dataclass with the fields the models read, and __post_init__'s
\* derived G_L, tau_m and I_th
NeuronParameters(C_m, E_L, R_m, V_th, V_reset, V_max, Delta_th, a, b, tau_SRA) ==
    LET G_L == RDiv(Z(1), R_m)
    IN  [C_m |-> C_m, E_L |-> E_L, R_m |-> R_m, V_th |-> V_th,
         V_reset |-> V_reset, V_max |-> V_max, Delta_th |-> Delta_th,
         a |-> a, b |-> b, tau_SRA |-> tau_SRA,
         G_L |-> G_L,
         tau_m |-> RDiv(C_m, G_L),
         I_th |-> RMul(G_L, RSub(V_th, E_L))]

-----------------------------------------------------------------------------
(* BaseNeuronModel (base_model.py).                                        *)

\* len(a) of an array
Len0(a) == Cardinality(DOMAIN a)

\* np.zeros_like(times)
ZerosLike(t) == [j \in DOMAIN t |-> Z(0)]

\* __post_init__: V is zero but for V[0] = E_L
BaseInitV(np, t) == [ZerosLike(t) EXCEPT ![0] = np.E_L]

\* __post_init__: dt = times[1] - times[0]
BaseInitDt(t) == RSub(t[1], t[0])

\* np.arange-like grid of n points from t0 with step h
Grid(t0, h, n) == [j \in 0..(n - 1) |-> RAdd(t0, RMul(Z(j), h))]

-----------------------------------------------------------------------------
(* LIFModel (lif_model.py).                                                *)

\* the attribute last_fire_time does not exist until the first spike
Unset == [n |-> 0, d |-> 0]
\* an AELIFModel-only array, on a LIFModel
NoArray == <<>>

\* LIFModel.dvdt without its second line, the division by C_m
LIFModel_dvdt_NoCm(np, V_m, I_app) ==
    RAdd(RDiv(RSub(np.E_L, V_m), np.R_m), I_app)

\* LIFModel.dvdt: ((E_L - V_m) / R_m + I_app) / C_m
LIFModel_dvdt(np, V_m, I_app) ==
    RDiv(RAdd(RDiv(RSub(np.E_L, V_m), np.R_m), I_app), np.C_m)

\* the Euler step reading the current at index j instead of j-1
LIF_V_new_CurrentIndex(np, v, cur, nz, h, j) ==
    RAdd(RAdd(v[j - 1], RMul(LIFModel_dvdt(np, v[j - 1], cur[j]), h)), nz[j])

\* the proposed value of step j: Euler step from index j-1 plus noises[j]
LIF_V_new(np, v, cur, nz, h, j) ==
    RAdd(RAdd(v[j - 1], RMul(LIFModel_dvdt(np, v[j - 1], cur[j - 1]), h)), nz[j])

\* the threshold test with >= in place of >
LIFFires_Inclusive(np, V_new) == RGe(V_new, np.V_th)

\* the threshold test of LIFModel.simulate: V_new > V_th
LIFFires(np, V_new) == RGt(V_new, np.V_th)

\* values the parameters of a LIFModel are drawn from
LifCm == {Z(1), Z(2)}
LifRm == {Z(1), Z(2)}
LifDt == {Z(1), Z(2)}
LifEL == {Z(0), Z(3)}
LifVth == {Z(2)}
LifVreset == {Z(-1), Z(3)}
LifParams ==
    {NeuronParameters(c, e, r, th, vr, NaN, NaN, NaN, NaN, NaN) :
        c \in LifCm, e \in LifEL, r \in LifRm, th \in LifVth, vr \in LifVreset}

\* input currents: one constant at every index, or 1.1 * I_th on the
\* contiguous run of indices s .. s+len-1 and 0 elsewhere (test_LIF)
LifConst == {Z(-2), Z(-1), Z(0), Z(1), Q(3, 2), Z(2)}
ConstCurrent(t, c) == [j \in DOMAIN t |-> c]
WindowCurrent(np, t, s, len) ==
    [j \in DOMAIN t |-> IF s <= j /\ j < s + len
                        THEN RMul(np.I_th, Q(11, 10)) ELSE Z(0)]
LifCurrents(np, t) ==
    {ConstCurrent(t, c) : c \in LifConst}
    \cup {WindowCurrent(np, t, w[1], w[2]) :
            w \in {x \in (0..(Len0(t) - 1)) \X (1..Len0(t)) : x[1] + x[2] <= Len0(t)}}

\* np.random.normal(size) * noise_sigma * sqrt(dt): all zero when
\* noise_sigma = 0; otherwise a draw, here with at most one nonzero entry
NoiseVals == {Q(-1, 2), Z(1)}
NoiseDraws(t, sigma) ==
    IF sigma = Z(0) THEN {ZerosLike(t)}
    ELSE {ZerosLike(t)} \cup
         {[ZerosLike(t) EXCEPT ![j] = RMul(x, sigma)] : j \in DOMAIN t, x \in NoiseVals}

InitLIF ==
    /\ neuron_parameters \in LifParams
    /\ \E h \in LifDt : times = Grid(Z(0), h, NLif)
    /\ I \in LifCurrents(neuron_parameters, times)
    /\ V = BaseInitV(neuron_parameters, times)
    /\ dt = BaseInitDt(times)
    /\ num_fire = 0
    /\ noise_sigma \in {Z(0), Z(1)}
    /\ noises \in NoiseDraws(times, noise_sigma)
    /\ last_fire_time = Unset
    /\ I_SRA_array = NoArray
    /\ last_spike_time = Unset
    /\ isi_array = <<>>
    /\ spike_array = NoArray
    /\ pc = "idle"
    /\ i = 0
    /\ calls = 0
    /\ fn = "none"
    /\ args = <<>>
    /\ ret = <<>>

\* the caller invokes simulate(): the for loop starts at i = 1
SimulateCall ==
    /\ pc = "idle"
    /\ calls < MaxCalls
    /\ pc' = "loop"
    /\ i' = 1
    /\ UNCHANGED <<neuron_parameters, times, I, V, dt, num_fire, noise_sigma,
                   noises, last_fire_time, I_SRA_array, last_spike_time,
                   isi_array, spike_array, calls, utilVars>>

\* range(1, len(times)) is exhausted: simulate() returns
SimulateReturn ==
    /\ pc = "loop"
    /\ i = Len0(times)
    /\ pc' = "idle"
    /\ calls' = calls + 1
    /\ UNCHANGED <<neuron_parameters, times, I, V, dt, num_fire, noise_sigma,
                   noises, last_fire_time, I_SRA_array, last_spike_time,
                   isi_array, spike_array, i, utilVars>>

\* one iteration of the loop of LIFModel.simulate
LIFStep ==
    /\ pc = "loop"
    /\ i < Len0(times)
    /\ LET V_new == LIF_V_new(neuron_parameters, V, I, noises, dt, i)
       IN  IF LIFFires(neuron_parameters, V_new)
           THEN /\ V' = [V EXCEPT ![i] = neuron_parameters.V_reset]
                /\ num_fire' = num_fire + 1
                /\ last_fire_time' = times[i]
           ELSE /\ V' = [V EXCEPT ![i] = V_new]
                /\ UNCHANGED <<num_fire, last_fire_time>>
    /\ i' = i + 1
    /\ UNCHANGED <<neuron_parameters, times, I, dt, noise_sigma, noises,
                   I_SRA_array, last_spike_time, isi_array, spike_array, pc,
                   calls, utilVars>>

NextLIF == SimulateCall \/ LIFStep \/ SimulateReturn

SpecLIF == InitLIF /\ [][NextLIF]_vars

-----------------------------------------------------------------------------
(* Properties of LIFModel.simulate.                                        *)

\* simulate() has returned once on a freshly constructed model
FirstRunDone == pc = "idle" /\ calls = 1

\* the Euler proposal of step j written with the time constant:
\* V[j-1] + (dt / tau_m) * (E_L - V[j-1] + R_m * I[j-1]) + noises[j]
LIFProposal(j) ==
    LET np == neuron_parameters
    IN  RAdd(RAdd(V[j - 1],
                  RMul(RDiv(dt, np.tau_m),
                       RAdd(RSub(np.E_L, V[j - 1]), RMul(np.R_m, I[j - 1])))),
             noises[j])

\* C3: every step of LIFModel.simulate whose proposal V_new is strictly above
\* V_th stores V_reset in V[i], adds exactly 1 to num_fire and records
\* times[i] as the time of the last spike; every step with V_new <= V_th
\* (equality included) stores V_new and leaves both untouched.
C3_ThresholdStep ==
    [][(pc = "loop" /\ i' = i + 1) =>
          IF RGt(LIFProposal(i), neuron_parameters.V_th)
          THEN /\ V'[i] = neuron_parameters.V_reset
               /\ num_fire' = num_fire + 1
               /\ last_fire_time' = times[i]
          ELSE /\ RLe(LIFProposal(i), neuron_parameters.V_th)
               /\ V'[i] = LIFProposal(i)
               /\ num_fire' = num_fire
               /\ last_fire_time' = last_fire_time]_vars

\* a run in which step 1 fired and step 2 proposed exactly V_th and did not
C3_Witness ==
    /\ pc = "loop" /\ i = 3 /\ calls = 0
    /\ num_fire = 1
    /\ last_fire_time = times[1]
    /\ V[1] = neuron_parameters.V_reset
    /\ LIFProposal(2) = neuron_parameters.V_th
    /\ V[2] = neuron_parameters.V_th

\* the input current is one constant below I_th and there is no noise
SubThresholdConstant ==
    /\ noise_sigma = Z(0)
    /\ \A j \in DOMAIN I : I[j] = I[0]
    /\ RLt(I[0], neuron_parameters.I_th)

\* C4 as stated: a constant current c < I_th and no noise give num_fire = 0,
\* whatever dt / tau_m is and wherever E_L and V_reset lie.
C4_Original == (FirstRunDone /\ SubThresholdConstant) => num_fire = 0

\* C4 amended: a constant current c < I_th and no noise give num_fire = 0
\* provided dt <= tau_m and E_L <= V_th (V_reset is unrestricted).
C4_SubThresholdSilent ==
    (/\ FirstRunDone
     /\ SubThresholdConstant
     /\ RLe(dt, neuron_parameters.tau_m)
     /\ RLe(neuron_parameters.E_L, neuron_parameters.V_th)) => num_fire = 0

\* a finished run under C4's amended premise with a nonzero current that
\* moved V away from E_L, and V_reset above V_th
C4_Witness ==
    /\ FirstRunDone
    /\ SubThresholdConstant
    /\ RLe(dt, neuron_parameters.tau_m)
    /\ RLe(neuron_parameters.E_L, neuron_parameters.V_th)
    /\ RGt(I[0], Z(0))
    /\ RGt(V[Len0(times) - 1], neuron_parameters.E_L)
    /\ RGt(neuron_parameters.V_reset, neuron_parameters.V_th)
    /\ num_fire = 0

RECURSIVE RPow(_, _)
RPow(x, n) == IF n = 0 THEN Z(1) ELSE RMul(x, RPow(x, n - 1))

\* the steps the closed form of the Euler recurrence needs, from V = E_L
\* under the current 1.1 * I_th, to pass V_th: the least m >= 1 with
\* 11 * (1 - dt/tau_m)^m < 1; 0 when no m up to the grid length does
NeedSteps ==
    LET k == RDiv(dt, neuron_parameters.tau_m)
        ok == {m \in 1..Len0(times) : RLt(RMul(Z(11), RPow(RSub(Z(1), k), m)), Z(1))}
    IN  IF ok = {} THEN 0 ELSE CHOOSE m \in ok : \A m2 \in ok : m <= m2

\* the loop steps that read the current 1.1 * I_th (step j reads I[j-1])
DrivenSteps ==
    {j \in 1..(Len0(times) - 1) :
        I[j - 1] = RMul(neuron_parameters.I_th, Q(11, 10))}

\* I is 1.1 * I_th on one contiguous run of indices and 0 elsewhere
IsWindowCurrent ==
    \E s \in DOMAIN I : \E len \in 1..Len0(I) :
        /\ s + len <= Len0(I)
        /\ I = WindowCurrent(neuron_parameters, times, s, len)

\* C5: with no noise and E_L < V_th, a current of 1.1 * I_th on a contiguous
\* run of indices long enough (it drives at least NeedSteps loop steps) and 0
\* elsewhere makes simulate() fire: num_fire > 0 when it returns.
C5_SupraThresholdFires ==
    (/\ FirstRunDone
     /\ noise_sigma = Z(0)
     /\ RLt(neuron_parameters.E_L, neuron_parameters.V_th)
     /\ IsWindowCurrent
     /\ NeedSteps > 0
     /\ Cardinality(DrivenSteps) >= NeedSteps) => num_fire > 0

\* a finished run that fired only after several driven steps, the run of
\* indices starting after index 0
C5_Witness ==
    /\ FirstRunDone
    /\ noise_sigma = Z(0)
    /\ RLt(neuron_parameters.E_L, neuron_parameters.V_th)
    /\ IsWindowCurrent
    /\ I[0] = Z(0)
    /\ NeedSteps >= 3
    /\ Cardinality(DrivenSteps) = NeedSteps
    /\ num_fire = 1

-----------------------------------------------------------------------------
(* AELIFModel (lif_model.py).                                              *)

\* floor of a finite rational
Floor(x) == x.n \div x.d

\* 2^e for an integer e
RECURSIVE Pow2(_)
Pow2(e) == IF e = 0 THEN Z(1)
           ELSE IF e > 0 THEN RMul(Z(2), Pow2(e - 1))
           ELSE RMul(Q(1, 2), Pow2(e + 1))

\* np.exp(x).  The exponential is not rational; the model takes
\* 2^(3x/2) (= e^(1.04 x)), interpolated linearly between the integer
\* exponents: positive, increasing, 1 at x = 0
NpExp(x) ==
    LET y == RMul(x, Q(3, 2))
        f == Floor(y)
    IN  RMul(Pow2(f), RAdd(Z(1), RSub(y, Z(f))))

\* AELIFModel.dI_SRA_dt: (a * (V_m - E_L) - I_SRA) / tau_SRA
dI_SRA_dt(np, V_m, I_SRA) ==
    RDiv(RSub(RMul(np.a, RSub(V_m, np.E_L)), I_SRA), np.tau_SRA)

\* AELIFModel.dvdt:
\* (G_L * (E_L - V_m + Delta_th * exp((V_m - V_th) / Delta_th)) - I_SRA + I_app) / C_m
AELIFModel_dvdt(np, V_m, I_app, I_SRA) ==
    LET exp_term == RMul(np.Delta_th, NpExp(RDiv(RSub(V_m, np.V_th), np.Delta_th)))
    IN  RDiv(RAdd(RSub(RMul(np.G_L, RAdd(RSub(np.E_L, V_m), exp_term)), I_SRA), I_app),
             np.C_m)

\* the Euler step reading V[j] (what an earlier call left there) as its base
AELIF_Vu_StaleIndex(np, v, cur, sra, h, j) ==
    RAdd(v[j], RMul(h, AELIFModel_dvdt(np, v[j], cur[j - 1], sra[j - 1])))

\* V[i] = V[i-1] + dt * dvdt(V[i-1], I[i-1], I_SRA_array[i-1])
AELIF_Vu(np, v, cur, sra, h, j) ==
    RAdd(v[j - 1], RMul(h, AELIFModel_dvdt(np, v[j - 1], cur[j - 1], sra[j - 1])))

\* I_SRA_array[i] = I_SRA_array[i-1] + dt * dI_SRA_dt(V[i-1], I_SRA_array[i-1])
AELIF_Su(np, v, sra, h, j) ==
    RAdd(sra[j - 1], RMul(h, dI_SRA_dt(np, v[j - 1], sra[j - 1])))

\* the reset test compared against V_th, the LIF threshold
AELIFFires_Vth(np, Vi) == RGe(Vi, np.V_th)

\* the reset test of AELIFModel.simulate: V[i] >= V_max
AELIFFires(np, Vi) == RGe(Vi, np.V_max)

\* the interval taken after last_spike_time was already moved to times[j]
AELIF_isi_AfterUpdate(t, last, j) == RSub(t[j], t[j])

\* isi_array.append(times[i] - last_spike_time)
AELIF_isi(t, last, j) == RSub(t[j], last)

\* the spike written one index early
AELIFMarkSpike_OffByOne(sp, j) == [sp EXCEPT ![j - 1] = Z(1)]

\* spike_array[i] = 1
AELIFMarkSpike(sp, j) == [sp EXCEPT ![j] = Z(1)]

\* values the parameters of an AELIFModel are drawn from
AelifRm == {Z(1), Z(2)}
AelifVreset == {Z(-1)}
AelifVmax == {Z(2), Z(3)}
AelifDeltaTh == {Z(1), Z(2)}
AelifA == {Z(0), Z(1)}
AelifB == {Z(0), Z(1)}
AelifTauSRA == {Z(2)}
AelifParams ==
    {NeuronParameters(Z(1), Z(0), r, Z(1), vr, vm, d, a, b, ts) :
        r \in AelifRm, vr \in AelifVreset, vm \in AelifVmax, d \in AelifDeltaTh,
        a \in AelifA, b \in AelifB, ts \in AelifTauSRA}

\* a strictly increasing grid whose gaps grow: 0, 1, 3, 6, ...
Irregular(n) == [j \in 0..(n - 1) |-> Z((j * (j + 1)) \div 2)]
AelifGrids == {Grid(Z(0), Z(1), NAelif), Irregular(NAelif)}

\* input currents, one value per index
AelifCur == {Z(0), Q(13, 8), Z(4)}
AelifCurrents(t) == [DOMAIN t -> AelifCur]

InitAELIF ==
    /\ neuron_parameters \in AelifParams
    /\ times \in AelifGrids
    /\ I \in AelifCurrents(times)
    /\ V = BaseInitV(neuron_parameters, times)
    /\ dt = BaseInitDt(times)
    /\ num_fire = 0
    /\ noise_sigma = Z(0)
    /\ noises \in NoiseDraws(times, noise_sigma)
    /\ last_fire_time = Unset
    /\ I_SRA_array = ZerosLike(times)
    /\ last_spike_time = NegInf
    /\ isi_array = <<>>
    /\ spike_array = ZerosLike(times)
    /\ pc = "idle"
    /\ i = 0
    /\ calls = 0
    /\ fn = "none"
    /\ args = <<>>
    /\ ret = <<>>

\* one iteration of the loop of AELIFModel.simulate
AELIFStep ==
    /\ pc = "loop"
    /\ i < Len0(times)
    /\ LET np == neuron_parameters
           Vu == AELIF_Vu(np, V, I, I_SRA_array, dt, i)
           Su == AELIF_Su(np, V, I_SRA_array, dt, i)
       IN  IF AELIFFires(np, Vu)
           THEN /\ V' = [V EXCEPT ![i] = np.V_reset]
                /\ I_SRA_array' = [I_SRA_array EXCEPT ![i] = RAdd(Su, np.b)]
                /\ num_fire' = num_fire + 1
                /\ isi_array' = Append(isi_array, AELIF_isi(times, last_spike_time, i))
                /\ last_spike_time' = times[i]
                /\ spike_array' = AELIFMarkSpike(spike_array, i)
           ELSE /\ V' = [V EXCEPT ![i] = Vu]
                /\ I_SRA_array' = [I_SRA_array EXCEPT ![i] = Su]
                /\ UNCHANGED <<num_fire, isi_array, last_spike_time, spike_array>>
    /\ i' = i + 1
    /\ UNCHANGED <<neuron_parameters, times, I, dt, noise_sigma, noises,
                   last_fire_time, pc, calls, utilVars>>

NextAELIF == SimulateCall \/ AELIFStep \/ SimulateReturn

SpecAELIF == InitAELIF /\ [][NextAELIF]_vars

-----------------------------------------------------------------------------
(* Properties of AELIFModel.simulate.                                      *)

\* the unclipped Euler value of V at step j, from the values at index j-1:
\* V + dt/C_m * (G_L * (E_L - V) + G_L * Delta_th * exp((V - V_th)/Delta_th)
\*               - I_SRA + I)
UnclippedV(j) ==
    LET np == neuron_parameters
        v == V[j - 1]
        leak == RMul(np.G_L, RSub(np.E_L, v))
        upswing == RMul(RMul(np.G_L, np.Delta_th),
                        NpExp(RDiv(RSub(v, np.V_th), np.Delta_th)))
        total == RAdd(RSub(RAdd(leak, upswing), I_SRA_array[j - 1]), I[j - 1])
    IN  RAdd(v, RMul(RDiv(dt, np.C_m), total))

\* the unclipped Euler value of I_SRA at step j:
\* I_SRA + dt/tau_SRA * (a * (V - E_L) - I_SRA)
UnclippedSRA(j) ==
    LET np == neuron_parameters
        s == I_SRA_array[j - 1]
    IN  RAdd(s, RMul(RDiv(dt, np.tau_SRA),
                     RSub(RMul(np.a, RSub(V[j - 1], np.E_L)), s)))

\* step j takes the reset branch; index j-1 is final once step j has run,
\* so this also tells, of a finished run, whether step j fired
WouldFire(j) == RGe(UnclippedV(j), neuron_parameters.V_max)

\* the steps of the loop
Steps == 1..(Len0(times) - 1)

\* the number of ones in an array
Ones(sp) == Cardinality({j \in DOMAIN sp : sp[j] = Z(1)})

\* C1: after one simulate() on a fresh AELIFModel, spike_array[i] = 1 exactly
\* at the steps i of 1..N-1 that took the reset branch, spike_array[0] = 0,
\* and len(isi_array) = num_fire = the number of ones in spike_array.
C1_SpikeArrayMarksFires ==
    FirstRunDone =>
        /\ \A j \in Steps : (spike_array[j] = Z(1)) <=> WouldFire(j)
        /\ \A j \in Steps : spike_array[j] \in {Z(0), Z(1)}
        /\ spike_array[0] = Z(0)
        /\ Len(isi_array) = num_fire
        /\ num_fire = Ones(spike_array)

\* a finished first run in which some steps fired and some did not
C1_Witness ==
    /\ FirstRunDone
    /\ spike_array[1] = Z(1) /\ WouldFire(1)
    /\ spike_array[2] = Z(0) /\ ~WouldFire(2)
    /\ num_fire >= 2

FiredSteps == {j \in Steps : WouldFire(j)}

\* the k-th smallest element of a set of integers
Kth(S, k) == CHOOSE x \in S : Cardinality({y \in S : y < x}) = k - 1

\* C9: after one simulate() on a fresh AELIFModel that fired at s_1 < ... < s_n,
\* isi_array has n entries, the first is +inf, the k-th (k >= 2) is
\* times[s_k] - times[s_(k-1)] > 0, and last_spike_time is times[s_n], or
\* still -inf when n = 0.
C9_IsiArray ==
    FirstRunDone =>
        LET n == Cardinality(FiredSteps)
        IN  /\ Len(isi_array) = n
            /\ n >= 1 => isi_array[1] = PosInf
            /\ \A k \in 2..n :
                 /\ isi_array[k] = RSub(times[Kth(FiredSteps, k)],
                                        times[Kth(FiredSteps, k - 1)])
                 /\ RGt(isi_array[k], Z(0))
            /\ last_spike_time = (IF n = 0 THEN NegInf
                                  ELSE times[Kth(FiredSteps, n)])

\* a finished first run with two spikes that are not at adjacent steps
C9_Witness ==
    /\ FirstRunDone
    /\ FiredSteps = {1, 3}
    /\ Len(isi_array) = 2
    /\ isi_array[2] = RSub(times[3], times[1])

\* what C10 says of the state between calls
C10_Accumulates ==
    pc = "idle" =>
        /\ num_fire = Len(isi_array)
        /\ num_fire = calls * Ones(spike_array)

\* what C10 says of a step: index 0 of V and I_SRA_array is never written,
\* and a step of a later call rewrites what is there
C10_StepRewrites ==
    (pc = "loop" /\ i' = i + 1) =>
        /\ V'[0] = V[0]
        /\ I_SRA_array'[0] = I_SRA_array[0]
        /\ calls >= 1 =>
             /\ V' = V
             /\ I_SRA_array' = I_SRA_array
             /\ spike_array' = spike_array

\* C10: simulate() does not reset accumulated state: every step of a call
\* after the first leaves V, I_SRA_array and spike_array as the first call
\* left them, while between calls num_fire = len(isi_array) = k * (ones in
\* spike_array), k the number of calls made.
C10_RepeatedCalls == [](C10_Accumulates) /\ [][C10_StepRewrites]_vars

\* two calls have returned on a model that fires: num_fire is twice the
\* number of spikes in the trace
C10_Witness ==
    /\ pc = "idle" /\ calls = 2
    /\ Ones(spike_array) >= 1
    /\ num_fire = 2 * Ones(spike_array)

-----------------------------------------------------------------------------
(* Utilities (utils.py): expand_bins, STA, find_fano_factor.               *)

\* int(x) of a finite float: truncation toward zero
PyInt(x) == IF x.n >= 0 THEN x.n \div x.d ELSE -((-x.n) \div x.d)

\* numpy's x / y on float64: division by zero gives inf or NaN, never raises
NpDiv(x, y) ==
    IF IsFinite(y) /\ y.n = 0
    THEN (IF IsFinite(x) THEN Norm(Sgn(x.n), 0) ELSE x)
    ELSE RDiv(x, y)

\* a[lo] + ... + a[hi]
RECURSIVE RSum(_, _, _)
RSum(a, lo, hi) == IF lo > hi THEN Z(0) ELSE RAdd(a[lo], RSum(a, lo + 1, hi))

\* np.sum of a whole array
NpSum(a) == RSum(a, 0, Len0(a) - 1)

\* what a call produced
Pending == [kind |-> "pending", arr |-> <<>>, val |-> NaN, exc |-> ""]
Array(a) == [kind |-> "array", arr |-> a, val |-> NaN, exc |-> ""]
Value(x) == [kind |-> "value", arr |-> <<>>, val |-> x, exc |-> ""]
None == [kind |-> "None", arr |-> <<>>, val |-> NaN, exc |-> ""]
Raise(e) == [kind |-> "raise", arr |-> <<>>, val |-> NaN, exc |-> e]

\* expand_bins averaging each section (np.mean over axis 1)
expand_bins_RowMeans(spike, new_dt, old_dt) ==
    LET sf == PyInt(RDiv(new_dt, old_dt))
        N == Len0(spike)
    IN  IF sf = 0 THEN Raise("ZeroDivisionError")
        ELSE IF N % sf # 0 THEN Raise("ValueError")
        ELSE LET cols == N \div sf
             IN  Array([r \in 0..(sf - 1) |->
                          NpDiv(RSum(spike, r * cols, r * cols + cols - 1), Z(cols))])

\* expand_bins: np.split into sf sections, np.array, np.mean(axis=0).
\* np.split computes N % sf (ZeroDivisionError for sf = 0) and raises
\* ValueError unless it is 0; the sf sections are the rows of a (sf, N/sf)
\* array, and the mean over axis 0 averages each column over the rows
expand_bins(spike, new_dt, old_dt) ==
    LET sf == PyInt(RDiv(new_dt, old_dt))
        N == Len0(spike)
    IN  IF sf = 0 THEN Raise("ZeroDivisionError")
        ELSE IF N % sf # 0 THEN Raise("ValueError")
        ELSE LET cols == N \div sf
                 column(j) == [r \in 0..(sf - 1) |-> spike[r * cols + j]]
             IN  Array([j \in 0..(cols - 1) |-> RDiv(NpSum(column(j)), Z(sf))])

\* STA's loop from index idx on; sta is the running sum, or "raise" once an
\* in-place add failed.  sta is the (L, 1) column np.zeros((L, 1)), and
\* currents is taken to be an (N, 1) column too: a one-dimensional currents
\* would broadcast against the column to (L, L), which the in-place add
\* refuses for every L > 1.
\*   i - t_minus < 0 :  sta[0:i] += currents[0:i]
\*   otherwise       :  sta += currents[i-t_minus:i+t_plus], a slice numpy
\*                      cuts at N; rows must match, or the slice has one row
\*                      and is broadcast, else ValueError
RECURSIVE STALoop(_, _, _, _, _, _)
STALoop(currents, spike, m, p, idx, sta) ==
    LET N == Len0(spike)
        L == m + p
        hi == IF idx + p < N THEN idx + p ELSE N
        rows == hi - (idx - m)
        clipped == [k \in 0..(L - 1) |->
                      IF k < idx THEN RAdd(sta.arr[k], currents[k]) ELSE sta.arr[k]]
        full == [k \in 0..(L - 1) |-> RAdd(sta.arr[k], currents[idx - m + k])]
        spread == [k \in 0..(L - 1) |-> RAdd(sta.arr[k], currents[idx - m])]
    IN  IF idx >= N \/ sta.kind = "raise" THEN sta
        ELSE IF spike[idx] # Z(1) THEN STALoop(currents, spike, m, p, idx + 1, sta)
        ELSE IF idx - m < 0
             THEN STALoop(currents, spike, m, p, idx + 1, Array(clipped))
        ELSE IF rows = L
             THEN STALoop(currents, spike, m, p, idx + 1, Array(full))
        ELSE IF rows = 1
             THEN STALoop(currents, spike, m, p, idx + 1, Array(spread))
        ELSE Raise("ValueError")

\* STA: the window lengths in steps, the loop, the division by the spike sum
STA(currents, spike, step, t_minus, t_plus) ==
    LET m == PyInt(RDiv(t_minus, step))
        p == PyInt(RDiv(t_plus, step))
        zeros == [k \in 0..(m + p - 1) |-> Z(0)]
        sum == STALoop(currents, spike, m, p, 0, Array(zeros))
    IN  IF sum.kind = "raise" THEN sum
        ELSE Array([k \in DOMAIN sum.arr |-> NpDiv(sum.arr[k], NpSum(spike))])

\* find_fano_factor: len % w (ZeroDivisionError for w = 0), None unless it is
\* 0; np.split into w sections, the rows of a (w, N/w) array; the sums of
\* the rows; np.var (population variance) over np.mean
find_fano_factor(time_range, spike, step) ==
    LET w == PyInt(RDiv(time_range, step))
        N == Len0(spike)
    IN  IF w = 0 THEN Raise("ZeroDivisionError")
        ELSE IF N % w # 0 THEN None
        ELSE LET cols == N \div w
                 counts == [r \in 0..(w - 1) |->
                              RSum(spike, r * cols, r * cols + cols - 1)]
                 mean == RDiv(NpSum(counts), Z(w))
                 sq == [r \in 0..(w - 1) |->
                          RMul(RSub(counts[r], mean), RSub(counts[r], mean))]
                 var == RDiv(NpSum(sq), Z(w))
             IN  Value(NpDiv(var, mean))

\* arrays of length n over a set of values
Arrays(n, vals) == [0..(n - 1) -> vals]
SpikeArrays == UNION {Arrays(n, {Z(0), Z(1)}) : n \in 0..MaxLen}
CurrentVals == {Z(1), Z(3)}
Durations == {Z(0), Z(1), Z(2), Z(3)}
TimeSteps == {Z(1), Z(2)}

ExpandBinsArgs ==
    {[spike_array |-> a, new_dt |-> n, old_dt |-> o] :
        a \in SpikeArrays, n \in Durations \ {Z(0)}, o \in TimeSteps}
STAArgs ==
    {[currents |-> x[2], spike_array |-> x[1], dt |-> h, t_minus |-> tm, t_plus |-> tp] :
        x \in {y \in SpikeArrays \X UNION {Arrays(n, CurrentVals) : n \in 1..MaxLen} :
                 Len0(y[1]) = Len0(y[2])},
        h \in TimeSteps, tm \in Durations, tp \in Durations}
FanoArgs ==
    {[time_range |-> r, spike_locations |-> a, dt |-> h] :
        a \in SpikeArrays, r \in Durations \ {Z(0)}, h \in TimeSteps}

InitUtils ==
    /\ neuron_parameters = NaN
    /\ times = NoArray
    /\ I = NoArray
    /\ V = NoArray
    /\ dt = NaN
    /\ num_fire = 0
    /\ noise_sigma = Z(0)
    /\ noises = NoArray
    /\ last_fire_time = Unset
    /\ I_SRA_array = NoArray
    /\ last_spike_time = Unset
    /\ isi_array = <<>>
    /\ spike_array = NoArray
    /\ pc = "idle"
    /\ i = 0
    /\ calls = 0
    /\ ret = Pending
    /\ \/ fn = "expand_bins" /\ args \in ExpandBinsArgs
       \/ fn = "STA" /\ args \in STAArgs
       \/ fn = "find_fano_factor" /\ args \in FanoArgs

CallExpandBins ==
    /\ fn = "expand_bins"
    /\ ret = Pending
    /\ ret' = expand_bins(args.spike_array, args.new_dt, args.old_dt)
    /\ UNCHANGED <<modelVars, fn, args>>

CallSTA ==
    /\ fn = "STA"
    /\ ret = Pending
    /\ ret' = STA(args.currents, args.spike_array, args.dt, args.t_minus, args.t_plus)
    /\ UNCHANGED <<modelVars, fn, args>>

CallFindFanoFactor ==
    /\ fn = "find_fano_factor"
    /\ ret = Pending
    /\ ret' = find_fano_factor(args.time_range, args.spike_locations, args.dt)
    /\ UNCHANGED <<modelVars, fn, args>>

NextUtils == CallExpandBins \/ CallSTA \/ CallFindFanoFactor

SpecUtils == InitUtils /\ [][NextUtils]_vars

-----------------------------------------------------------------------------
(* Properties of the utilities.                                            *)

\* the call of the utility f has returned or raised
Called(f) == fn = f /\ ret # Pending

\* the indices at which a spike array holds 1
SpikeIndices(a) == {j \in DOMAIN a : a[j] = Z(1)}

\* the sum of g over the set S of integers
RECURSIVE SumOver(_, _)
SumOver(S, g) ==
    IF S = {} THEN Z(0)
    ELSE LET x == CHOOSE y \in S : TRUE
         IN  RAdd(g[x], SumOver(S \ {x}, g))

\* the spike-triggered average as C6 states it: position k of the window of
\* the spike at i holds currents[i-m+k]; samples before index 0 do not exist
STAClaimed ==
    LET N == Len0(args.spike_array)
        m == PyInt(RDiv(args.t_minus, args.dt))
        p == PyInt(RDiv(args.t_plus, args.dt))
        S == SpikeIndices(args.spike_array)
        sample(j, k) == IF j - m + k >= 0 THEN args.currents[j - m + k] ELSE Z(0)
    IN  [k \in 0..(m + p - 1) |->
           RDiv(SumOver(S, [j \in S |-> sample(j, k)]), Z(Cardinality(S)))]

\* every window ends inside the sequence, and there is a spike
STAWindowsFit ==
    LET p == PyInt(RDiv(args.t_plus, args.dt))
        S == SpikeIndices(args.spike_array)
    IN  S # {} /\ \A j \in S : j + p <= Len0(args.spike_array)

\* no window starts before index 0
STANoneClipped ==
    LET m == PyInt(RDiv(args.t_minus, args.dt))
    IN  \A j \in SpikeIndices(args.spike_array) : j - m >= 0

\* C6: STA returns the sum, over the spikes, of the spike-aligned current
\* windows divided by the number of spikes; a window that starts before
\* index 0 still contributes its existing samples at their aligned positions.
C6_Original == (Called("STA") /\ STAWindowsFit) => ret = Array(STAClaimed)

\* C6 where no window is clipped at the start: there STA is the
\* spike-aligned average
C6_UnclippedAligned ==
    (Called("STA") /\ STAWindowsFit /\ STANoneClipped) => ret = Array(STAClaimed)

\* the bins as C7 states them: entry j is the mean of the j-th of k
\* contiguous segments
BinsClaimed ==
    LET k == PyInt(RDiv(args.new_dt, args.old_dt))
        seg == Len0(args.spike_array) \div k
    IN  [j \in 0..(k - 1) |->
           RDiv(RSum(args.spike_array, j * seg, j * seg + seg - 1), Z(seg))]

\* the array is not empty and splits evenly into k >= 1 segments
BinsDivisible ==
    LET k == PyInt(RDiv(args.new_dt, args.old_dt))
    IN  k >= 1 /\ Len0(args.spike_array) >= 1 /\ Len0(args.spike_array) % k = 0

\* C7: with k = int(new_dt/old_dt) dividing len(spike_array), expand_bins
\* returns exactly k entries, entry j the mean of the j-th contiguous
\* segment (so the input itself when new_dt = old_dt).
C7_Original ==
    (Called("expand_bins") /\ BinsDivisible) =>
        /\ ret.kind = "array"
        /\ ret.arr = BinsClaimed

\* entry j of the bins the code computes: the mean, over the k segments, of
\* their j-th elements
BinsAcrossSegments ==
    LET k == PyInt(RDiv(args.new_dt, args.old_dt))
        seg == Len0(args.spike_array) \div k
        R == 0..(k - 1)
    IN  [j \in 0..(seg - 1) |->
           RDiv(SumOver(R, [r \in R |-> args.spike_array[r * seg + j]]), Z(k))]

\* the array, empty or not, splits evenly into k >= 1 segments
BinsSplitEvenly ==
    LET k == PyInt(RDiv(args.new_dt, args.old_dt))
    IN  k >= 1 /\ Len0(args.spike_array) % k = 0

\* C7 amended: with k = int(new_dt/old_dt) dividing len(spike_array), the
\* array is cut into k equal-length contiguous segments and the result has
\* len(spike_array)/k entries, entry j being the mean over the k segments of
\* their j-th elements; with new_dt = old_dt the output equals the input.
C7_MeanAcrossSegments ==
    (Called("expand_bins") /\ BinsSplitEvenly) =>
        /\ ret.kind = "array"
        /\ Len0(ret.arr) * PyInt(RDiv(args.new_dt, args.old_dt)) = Len0(args.spike_array)
        /\ ret.arr = BinsAcrossSegments
        /\ args.new_dt = args.old_dt => ret.arr = args.spike_array

\* expand_bins has halved four bins whose two segments differ
C7_Witness ==
    /\ Called("expand_bins")
    /\ BinsDivisible
    /\ PyInt(RDiv(args.new_dt, args.old_dt)) = 2
    /\ Len0(args.spike_array) = 4
    /\ args.spike_array[0] = Z(1) /\ args.spike_array[1] = Z(1)
    /\ args.spike_array[2] = Z(0) /\ args.spike_array[3] = Z(0)
    /\ ret.kind = "array"
    /\ ret.arr = [j \in 0..1 |-> Q(1, 2)]

\* C7's special case: with new_dt = old_dt expand_bins returns its input
C7_IdentityAtEqualDt ==
    (Called("expand_bins") /\ args.new_dt = args.old_dt) =>
        ret = Array(args.spike_array)

\* the Fano factor as C8 states it: variance over mean of the spike sums of
\* w equal contiguous windows, the variance taken as E[c^2] - E[c]^2
FanoClaimed ==
    LET w == PyInt(RDiv(args.time_range, args.dt))
        seg == Len0(args.spike_locations) \div w
        c == [r \in 0..(w - 1) |->
                RSum(args.spike_locations, r * seg, r * seg + seg - 1)]
        mean == RDiv(NpSum(c), Z(w))
        meansq == RDiv(NpSum([r \in 0..(w - 1) |-> RMul(c[r], c[r])]), Z(w))
    IN  NpDiv(RSub(meansq, RMul(mean, mean)), mean)

\* len(spike_locations) is a multiple of w
FanoDivisible ==
    LET w == PyInt(RDiv(args.time_range, args.dt))
        N == Len0(args.spike_locations)
    IN  \E q \in 0..N : q * w = N

\* C8: find_fano_factor returns None, without raising, whenever
\* len(spike_locations) is not divisible by w = int(time_range/dt), and
\* variance(counts)/mean(counts) over the w windows whenever it is.
C8_Original ==
    (Called("find_fano_factor") /\ Len0(args.spike_locations) >= 1) =>
        IF FanoDivisible THEN ret = Value(FanoClaimed) ELSE ret = None

\* C8 for windows of at least one step (w >= 1)
C8_HoldsForPositiveWindow ==
    (Called("find_fano_factor") /\ PyInt(RDiv(args.time_range, args.dt)) >= 1) =>
        IF FanoDivisible THEN ret = Value(FanoClaimed) ELSE ret = None

=============================================================================
